---- MODULE Spec2Model ----
(***************************************************************************)
(* Model of trapezoid2D_integration_functions.py: the trapezoidal weight   *)
(* vectors, the 180/270 degree row rotators, the focal-field synthesizers  *)
(* (XY plane and XY + axial plane), the lens-plane synthesizer, its quick  *)
(* variant and the polar-to-Cartesian resampler.                           *)
(*                                                                         *)
(* Arrays are functions over 0..n-1, as in the source (0-based).  Real     *)
(* numbers are exact rationals kept as integer numerators over a stated    *)
(* denominator.  The value of a quadrature sum at an output point is kept  *)
(* as a term naming the sum and the point it was evaluated at.             *)
(***************************************************************************)
EXTENDS Integers, Sequences, FiniteSets, TLC

\* ------------------------------------------------------------------ bounds
MaxResTheta == 2
MaxResPhi == 4
MaxResFocus == 2
MaxResZ == 2
MaxOffset == 1
MaxLength == 2
MaxCartTheta == 3
MaxCartPhi == 5
MaxRho == 5
MaxQuickPhi == 41

VARIABLES
    fn,          \* the function the outermost call executes ("none" when idle)
    frame,       \* the function whose body is executing (the callee in a nested call)
    pc,          \* position inside frame's body
    arg,         \* the inputs of the outermost call
    ex_lens,     \* local ex_lens of the executing focal synthesizer (rotated)
    ey_lens,     \* local ey_lens of the executing focal synthesizer (rotated)
    weight,      \* the trapezoidal weight vectors of the executing synthesizer
    coupling,    \* Axx, Axy, Axz, Ayx, Ayy, Ayz of the executing focal synthesizer
    i,           \* loop counter i of the executing loop
    j,           \* loop counter j of the executing loop
    xy,          \* ex, ey, ez of custom_mask_focus_field
    XY,          \* Ex_XY, Ey_XY, Ez_XY received by custom_mask_focus_field_XZ_XY
    XZ,          \* Ex_XZ, Ey_XZ, Ez_XZ and the adjusted resolution_z
    lens,        \* Ex, Ey of the executing lens-plane synthesizer (and the
                 \* grids of the quick one)
    cart,        \* I_cartesian, Ex_cartesian, Ey_cartesian of plot_in_cartesian
    iterations,  \* quadrature-loop iterations executed so far in this call
    writes,      \* per cell of the output arrays being filled: the iterations
                 \* <<i, j>> that assigned it, in order
    ret          \* outcome of the outermost call

vars == <<fn, frame, pc, arg, ex_lens, ey_lens, weight, coupling, i, j, xy, XY, XZ,
          lens, cart, iterations, writes, ret>>

\* ------------------------------------------------------------------ helpers
Idx(n) == 0 .. (n - 1)

Abs(v) == IF v < 0 THEN -v ELSE v

\* np.zeros((a,b)) of real or complex numbers that are modelled as integers
Zeros(a, b) == [p \in Idx(a) |-> [t \in Idx(b) |-> 0]]

\* denominator of the numerators LinspaceNum yields
LinspaceDen(n) == IF n > 1 THEN n - 1 ELSE 1

\* np.linspace(start, stop, n): entry k is start + k*(stop-start)/(n-1), kept as
\* the numerator over LinspaceDen(n); n = 1 gives [start], n = 0 the empty array
LinspaceNum(start, stop, n) ==
    [k \in Idx(n) |-> start * LinspaceDen(n) + k * (stop - start)]

RECURSIVE SumTo(_, _)
\* np.sum over entries 0..n-1 of a vector
SumTo(v, n) == IF n = 0 THEN 0 ELSE SumTo(v, n - 1) + v[n - 1]

\* numpy accepts an index idx on an axis of length a iff -a <= idx < a
IndexInRange(idx, a) == -a <= idx /\ idx < a

\* the row a valid index idx names: negative indices count from the end
RowOf(idx, a) == IF idx < 0 THEN idx + a ELSE idx

\* ------------------------------------------------------------------ weights
\* denominator of the numerators TrapezoidWeights yields: step = L/N = 2L/(2N)
WeightDen(N) == 2 * N

\* h = L/N as numerator over WeightDen(N)
StepNum(N, L) == 2 * L

\* weight = np.zeros(N)+h ; weight[0] = h/2 ; weight[-1] = h/2   (N >= 1)
TrapezoidWeights(N, L) ==
    LET filled == [k \in Idx(N) |-> StepNum(N, L)]
        first  == [filled EXCEPT ![0] = StepNum(N, L) \div 2]
    IN  [first EXCEPT ![RowOf(-1, N)] = StepNum(N, L) \div 2]

\* What building the weights of a grid of N points raises, "" when nothing:
\* the step L/N with Python numbers raises ZeroDivisionError for N = 0; with
\* numpy scalars the division yields inf and weight[0] raises IndexError.
WeightError(N, numpy_scalars) ==
    IF N # 0 THEN ""
    ELSE IF numpy_scalars THEN "IndexError" ELSE "ZeroDivisionError"

\* ------------------------------------------------------------------ rotators
\* a faulty offset: the three-quarter turn used for the half turn
Offset180ThreeQuarters(a) == (3 * a) \div 4

\* int(a/2)
Offset180(a) == a \div 2

\* int(3*a/4)
Offset270(a) == (3 * a) \div 4

\* a faulty index: the distance |i-offset| in place of the signed difference
RotateIndexAbs(ii, offset) == Abs(ii - offset)

\* the index expression i-int(...) of the assignment aux[i-offset,:]=matrix[i,:]
RotateIndex(ii, offset) == ii - offset

RECURSIVE RotateLoop(_, _, _, _, _)
\* for i in range(a): aux[i-offset,:]=matrix[i,:]   from iteration ii on
RotateLoop(matrix, aux, a, offset, ii) ==
    IF ii >= a THEN [ok |-> TRUE, aux |-> aux]
    ELSE IF ~IndexInRange(RotateIndex(ii, offset), a) THEN [ok |-> FALSE, aux |-> aux]
    ELSE RotateLoop(matrix,
                    [aux EXCEPT ![RowOf(RotateIndex(ii, offset), a)] = matrix[ii]],
                    a, offset, ii + 1)

\* rotate_180: a,b = shape ; aux = zeros ; loop ; return aux
rotate_180(matrix, a, b) == RotateLoop(matrix, Zeros(a, b), a, Offset180(a), 0)

\* rotate_270
rotate_270(matrix, a, b) == RotateLoop(matrix, Zeros(a, b), a, Offset270(a), 0)

\* ------------------------------------------------------------------ field values
\* A complex zero of an output array (np.zeros(..., dtype=complex)).
ZeroC == [s |-> "0", x |-> 0, y |-> 0, z |-> 0, f |-> "0"]

\* np.sum(A?x*phase_inc_x)+np.sum(A?y*phase_inc_y) for output component s at the
\* point (x, y, z): the phase kernels are functions of the point alone, the
\* coupling arrays are fixed during a call.
KernelSum(s, x, y, z) == [s |-> s, x |-> x, y |-> y, z |-> z, f |-> "1"]

\* v *= factor ; a zero stays zero
Scaled(v, factor) == IF v.s = "0" THEN v ELSE [v EXCEPT !.f = factor]

\* np.zeros((a,b),dtype=complex)
ZerosC(a, b) == [p \in Idx(a) |-> [t \in Idx(b) |-> ZeroC]]

\* array *= factor
ScaledArray(m, factor) ==
    [p \in DOMAIN m |-> [t \in DOMAIN m[p] |-> Scaled(m[p][t], factor)]]

\* weight_trapezoid=weight_trapezoid_rho*np.vstack(weight_trapezoid_phi): one row
\* per phi, one column per theta
WeightTrapezoid(w) ==
    [p \in DOMAIN w.phi |-> [t \in DOMAIN w.rho |-> w.rho[t] * w.phi[p]]]

\* prefactor*field*weight_trapezoid, entry by entry: the trigonometric prefactor is
\* kept by name, sign is -1 for Ayy=-prefactor_x*ey_lens*weight_trapezoid
Couple(prefactor, sign, field, w) ==
    [prefactor |-> prefactor,
     amplitude |-> [p \in DOMAIN field |-> [t \in DOMAIN field[p] |->
                      sign * field[p][t] * WeightTrapezoid(w)[p][t]]]]

\* Axx ... Ayz from the rotated fields and the weights
CouplingArrays(ex, ey, w) ==
    [Axx |-> Couple("x", 1, ex, w), Axy |-> Couple("y", 1, ex, w),
     Axz |-> Couple("z", 1, ex, w), Ayx |-> Couple("y", 1, ey, w),
     Ayy |-> Couple("x", -1, ey, w), Ayz |-> Couple("z", 1, ey, w)]

\* no cell of freshly allocated output arrays of shape (a,b) has been assigned
NoWrites(a, b) == [p \in Idx(a) |-> [t \in Idx(b) |-> << >>]]

\* the iteration (ii, jj) assigns cell c of the output arrays
Logged(w, c, ii, jj) == [w EXCEPT ![c.row][c.col] = Append(@, <<ii, jj>>)]

\* ------------------------------------------------------------------ custom_mask_focus_field
\* xmax=FOV_focus/2
XmaxXY(a) == a.FOV_focus \div 2

\* x_values=np.linspace(-xmax+x0,xmax+x0,resolution_focus)
XValuesXY(a) == LinspaceNum(-XmaxXY(a) + a.x0, XmaxXY(a) + a.x0, a.resolution_focus)

\* y_values=np.linspace(xmax+y0,-xmax+y0,resolution_focus)
YValuesXY(a) == LinspaceNum(XmaxXY(a) + a.y0, -XmaxXY(a) + a.y0, a.resolution_focus)

\* a faulty cell: ex[j,j] in place of ex[j,i]
CellCountdownDiagonal(ii, jj) == [row |-> jj, col |-> jj]

\* the cell an iteration (i, j) of the output loops assigns: ex[j,i]
CellCountdown(ii, jj) == [row |-> jj, col |-> ii]

\* a faulty cell: ex[i,j] in place of ex[j,i]
CellPlainTransposed(ii, jj) == [row |-> ii, col |-> jj]

\* the same in the countdown==False branch
CellPlain(ii, jj) == [row |-> jj, col |-> ii]

\* one iteration of the countdown==True loops: x=x_values[i], y from enumerate
CountdownIter(f, a, ii, jj) ==
    LET x == XValuesXY(a)[ii]
        y == YValuesXY(a)[jj]
        c == CellCountdown(ii, jj)
    IN  [ex |-> [f.ex EXCEPT ![c.row][c.col] = KernelSum("x", x, y, a.zp0)],
         ey |-> [f.ey EXCEPT ![c.row][c.col] = KernelSum("y", x, y, a.zp0)],
         ez |-> [f.ez EXCEPT ![c.row][c.col] = KernelSum("z", x, y, a.zp0)]]

\* one iteration of the countdown==False loops: x and y from enumerate
PlainIter(f, a, ii, jj) ==
    LET x == XValuesXY(a)[ii]
        y == YValuesXY(a)[jj]
        c == CellPlain(ii, jj)
    IN  [ex |-> [f.ex EXCEPT ![c.row][c.col] = KernelSum("x", x, y, a.zp0)],
         ey |-> [f.ey EXCEPT ![c.row][c.col] = KernelSum("y", x, y, a.zp0)],
         ez |-> [f.ez EXCEPT ![c.row][c.col] = KernelSum("z", x, y, a.zp0)]]

\* the cell the taken branch assigns
XYCell(countdown, ii, jj) ==
    IF countdown THEN CellCountdown(ii, jj) ELSE CellPlain(ii, jj)

\* the branch taken at "if countdown==True"
XYIter(countdown, f, a, ii, jj) ==
    IF countdown THEN CountdownIter(f, a, ii, jj) ELSE PlainIter(f, a, ii, jj)

RECURSIVE XYLoopFrom(_, _, _, _, _)
\* the output loops from iteration (ii, jj) on: i outer, j inner
XYLoopFrom(countdown, f, a, ii, jj) ==
    IF ii >= a.resolution_focus THEN f
    ELSE IF jj >= a.resolution_focus THEN XYLoopFrom(countdown, f, a, ii + 1, 0)
    ELSE XYLoopFrom(countdown, XYIter(countdown, f, a, ii, jj), a, ii, jj + 1)

\* ex=np.zeros(...) ; ey=np.copy(ex) ; ez=np.copy(ex)
XYZeros(a) ==
    [ex |-> ZerosC(a.resolution_focus, a.resolution_focus),
     ey |-> ZerosC(a.resolution_focus, a.resolution_focus),
     ez |-> ZerosC(a.resolution_focus, a.resolution_focus)]

\* ex*=-1j*focus/Lambda ; ey*=1j*focus/Lambda ; ez*=1j*focus/Lambda
XYScaled(f) ==
    [ex |-> ScaledArray(f.ex, "-i"), ey |-> ScaledArray(f.ey, "+i"),
     ez |-> ScaledArray(f.ez, "+i")]

\* ------------------------------------------------------------------ custom_mask_focus_field_XZ_XY
\* if int(resolution_z%2)==0: resolution_z+=1
OddResolutionZ(resolution_z) ==
    IF resolution_z % 2 = 0 THEN resolution_z + 1 ELSE resolution_z

\* x_values=np.linspace(-xmax+x0,xmax+x0,resolution_focus) with
\* xmax=FOV_focus*2**0.5/2: numerators in units of 2**0.5/2, x0 in the same units
XValuesXZ(a) == LinspaceNum(-a.FOV_focus + a.x0, a.FOV_focus + a.x0, a.resolution_focus)

\* z_values=np.linspace(z_FOV/2,-z_FOV/2,resolution_z): numerators over
\* 2*LinspaceDen(resolution_z)
ZValues(a, resolution_z) == LinspaceNum(a.z_FOV, -a.z_FOV, resolution_z)

\* the cell an iteration (i, j) of the axial loops assigns: Ex_XZ[j,i]
CellAxial(ii, jj) == [row |-> jj, col |-> ii]

\* one iteration of the loops under plot_plane=='X': rhop=|x|, phip=arctan2(0,x)
XZIterX(f, a, ii, jj) ==
    LET zp0 == f.z_values[jj]
        x   == XValuesXZ(a)[ii]
        c   == CellAxial(ii, jj)
    IN  [f EXCEPT !.Ex[c.row][c.col] = KernelSum("x", x, 0, zp0),
                  !.Ey[c.row][c.col] = KernelSum("y", x, 0, zp0),
                  !.Ez[c.row][c.col] = KernelSum("z", x, 0, zp0)]

\* one iteration of the loops under plot_plane=='Y': rhop=|y|, phip=arctan2(y,0)
XZIterY(f, a, ii, jj) ==
    LET zp0 == f.z_values[jj]
        y   == XValuesXZ(a)[ii]
        c   == CellAxial(ii, jj)
    IN  [f EXCEPT !.Ex[c.row][c.col] = KernelSum("x", 0, y, zp0),
                  !.Ey[c.row][c.col] = KernelSum("y", 0, y, zp0),
                  !.Ez[c.row][c.col] = KernelSum("z", 0, y, zp0)]

\* ------------------------------------------------------------------ inputs
\* an incident field of shape (resolution_phi, resolution_theta): row zero_row is
\* zero, every other entry is a distinct non-zero amplitude
LensField(a, b, zero_row, sign) ==
    [p \in Idx(a) |-> [t \in Idx(b) |->
        IF p = zero_row THEN 0 ELSE sign * (1 + p * b + t)]]

\* whether Python numbers or numpy scalars are passed only shows when a division
\* by a zero grid count happens
ScalarKinds(counts) == IF 0 \in counts THEN BOOLEAN ELSE {FALSE}

None == << >>

NoOutcome == [kind |-> "none"]

Returned(v) == [kind |-> "return", val |-> v]

Raised(e) == [kind |-> "error", error |-> e]

Init ==
    /\ fn = "none"
    /\ frame = "none"
    /\ pc = "idle"
    /\ arg = None
    /\ ex_lens = None
    /\ ey_lens = None
    /\ weight = None
    /\ coupling = None
    /\ i = 0
    /\ j = 0
    /\ xy = None
    /\ XY = None
    /\ XZ = None
    /\ lens = None
    /\ cart = None
    /\ iterations = 0
    /\ writes = None
    /\ ret = NoOutcome

locals == <<ex_lens, ey_lens, weight, coupling, i, j, xy, XY, XZ, lens, cart,
            iterations, writes>>

\* ------------------------------------------------------------------ calls
\* a call custom_mask_focus_field(ex_lens, ey_lens, ..., countdown, x0, y0)
CallFocus ==
    /\ pc = "idle"
    /\ \E rt \in 0 .. MaxResTheta, rp \in 0 .. MaxResPhi, rf \in 1 .. MaxResFocus,
          cd \in BOOLEAN, x0 \in 0 .. MaxOffset, y0 \in 0 .. MaxOffset,
          al \in 1 .. MaxLength :
       \E zr \in 0 .. rp, np \in ScalarKinds({rt, rp}) :
          arg' = [resolution_theta |-> rt, resolution_phi |-> rp,
                  resolution_focus |-> rf, countdown |-> cd, x0 |-> x0, y0 |-> y0,
                  alpha |-> al, zp0 |-> 0, FOV_focus |-> 2, numpy_scalars |-> np,
                  ex_lens |-> LensField(rp, rt, zr, 1),
                  ey_lens |-> LensField(rp, rt, zr, -1)]
    /\ fn' = "focus"
    /\ frame' = "focus"
    /\ pc' = "rotate"
    /\ UNCHANGED <<locals, ret>>

\* a call custom_mask_focus_field_XZ_XY(..., x0=0, y0=0, plot_plane): its first
\* statement calls custom_mask_focus_field with countdown=True
CallFocusXZXY ==
    /\ pc = "idle"
    /\ \E rt \in 0 .. MaxResTheta, rp \in 0 .. MaxResPhi, rf \in 1 .. MaxResFocus,
          rz \in 1 .. MaxResZ, zf \in 1 .. MaxLength, pp \in {"X", "Y", "Z"} :
       \E np \in ScalarKinds({rt, rp}) :
          arg' = [resolution_theta |-> rt, resolution_phi |-> rp,
                  resolution_focus |-> rf, countdown |-> TRUE, x0 |-> 0, y0 |-> 0,
                  alpha |-> 1, zp0 |-> 0, FOV_focus |-> 2, numpy_scalars |-> np,
                  z_FOV |-> zf, resolution_z |-> rz, plot_plane |-> pp,
                  ex_lens |-> LensField(rp, rt, rp, 1),
                  ey_lens |-> LensField(rp, rt, rp, -1)]
    /\ fn' = "focus_XZ_XY"
    /\ frame' = "focus"
    /\ pc' = "rotate"
    /\ UNCHANGED <<locals, ret>>

\* ex_lens=rotate_180(ex_lens) ; ey_lens=rotate_270(ey_lens)   (both synthesizers)
Rotate ==
    /\ frame \in {"focus", "focus_XZ_XY"}
    /\ pc = "rotate"
    /\ LET rx == rotate_180(arg.ex_lens, arg.resolution_phi, arg.resolution_theta)
           ry == rotate_270(arg.ey_lens, arg.resolution_phi, arg.resolution_theta)
       IN  IF rx.ok /\ ry.ok
           THEN /\ ex_lens' = rx.aux
                /\ ey_lens' = ry.aux
                /\ pc' = "weights"
                /\ ret' = ret
           ELSE /\ UNCHANGED <<ex_lens, ey_lens>>
                /\ pc' = "raised"
                /\ ret' = Raised("IndexError")
    /\ UNCHANGED <<fn, frame, arg, weight, coupling, i, j, xy, XY, XZ, lens, cart, iterations, writes>>

\* the error of the first weight vector that fails, "" when both are built
FocusWeightError(a) ==
    IF a.numpy_scalars
    THEN IF WeightError(a.resolution_theta, TRUE) # ""
         THEN WeightError(a.resolution_theta, TRUE)
         ELSE WeightError(a.resolution_phi, TRUE)
    ELSE IF WeightError(a.resolution_theta, FALSE) # ""
         THEN WeightError(a.resolution_theta, FALSE)
         ELSE WeightError(a.resolution_phi, FALSE)

\* weight_trapezoid_rho over [0, alpha], weight_trapezoid_phi over [0, 2*pi]
\* (the latter in units of pi)
FocusWeights(a) ==
    [rho |-> TrapezoidWeights(a.resolution_theta, a.alpha),
     phi |-> TrapezoidWeights(a.resolution_phi, 2)]

\* custom_mask_focus_field: the weights, the zero output arrays, then the
\* coupling arrays
Weights ==
    /\ frame = "focus"
    /\ pc = "weights"
    /\ IF FocusWeightError(arg) # ""
       THEN /\ pc' = "raised"
            /\ ret' = Raised(FocusWeightError(arg))
            /\ UNCHANGED <<weight, coupling, xy, writes>>
       ELSE /\ weight' = FocusWeights(arg)
            /\ xy' = XYZeros(arg)
            /\ writes' = NoWrites(arg.resolution_focus, arg.resolution_focus)
            /\ coupling' = CouplingArrays(ex_lens, ey_lens, FocusWeights(arg))
            /\ pc' = "loop"
            /\ ret' = ret
    /\ i' = 0
    /\ j' = 0
    /\ UNCHANGED <<fn, frame, arg, ex_lens, ey_lens, XY, XZ, lens, cart, iterations>>

\* one iteration of the output loops of custom_mask_focus_field
FocusIter ==
    /\ frame = "focus"
    /\ pc = "loop"
    /\ i < arg.resolution_focus
    /\ xy' = XYIter(arg.countdown, xy, arg, i, j)
    /\ writes' = Logged(writes, XYCell(arg.countdown, i, j), i, j)
    /\ IF j + 1 < arg.resolution_focus
       THEN /\ j' = j + 1
            /\ i' = i
       ELSE /\ j' = 0
            /\ i' = i + 1
    /\ iterations' = iterations + 1
    /\ UNCHANGED <<fn, frame, pc, arg, ex_lens, ey_lens, weight, coupling, XY, XZ, lens, cart, ret>>

\* the loops are over: the final scaling and "return ex,ey,ez" to the caller
FocusReturn ==
    /\ frame = "focus"
    /\ pc = "loop"
    /\ i >= arg.resolution_focus
    /\ xy' = XYScaled(xy)
    /\ IF fn = "focus"
       THEN /\ ret' = Returned(XYScaled(xy))
            /\ pc' = "returned"
            /\ UNCHANGED <<frame, XY>>
       ELSE /\ XY' = XYScaled(xy)
            /\ frame' = "focus_XZ_XY"
            /\ pc' = "odd_z"
            /\ ret' = ret
    /\ UNCHANGED <<fn, arg, ex_lens, ey_lens, weight, coupling, i, j, XZ, lens, cart, iterations, writes>>

\* XZ plane: resolution_z made odd, then the rotators run on the caller's arrays
OddZ ==
    /\ frame = "focus_XZ_XY"
    /\ pc = "odd_z"
    /\ XZ' = [resolution_z |-> OddResolutionZ(arg.resolution_z)]
    /\ pc' = "rotate"
    /\ UNCHANGED <<fn, frame, arg, ex_lens, ey_lens, weight, coupling, i, j, xy, XY, lens, cart,
                   iterations, writes, ret>>

\* custom_mask_focus_field_XZ_XY: the weights, z_values and the zero axial
\* arrays, then the coupling arrays
WeightsXZ ==
    /\ frame = "focus_XZ_XY"
    /\ pc = "weights"
    /\ IF FocusWeightError(arg) # ""
       THEN /\ pc' = "raised"
            /\ ret' = Raised(FocusWeightError(arg))
            /\ UNCHANGED <<weight, coupling, XZ, writes>>
       ELSE /\ weight' = FocusWeights(arg)
            /\ XZ' = [resolution_z |-> XZ.resolution_z,
                      z_values |-> ZValues(arg, XZ.resolution_z),
                      Ex |-> ZerosC(XZ.resolution_z, arg.resolution_focus),
                      Ey |-> ZerosC(XZ.resolution_z, arg.resolution_focus),
                      Ez |-> ZerosC(XZ.resolution_z, arg.resolution_focus)]
            /\ writes' = NoWrites(XZ.resolution_z, arg.resolution_focus)
            /\ coupling' = CouplingArrays(ex_lens, ey_lens, FocusWeights(arg))
            /\ pc' = "select"
            /\ ret' = ret
    /\ i' = 0
    /\ j' = 0
    /\ UNCHANGED <<fn, frame, arg, ex_lens, ey_lens, xy, XY, lens, cart, iterations>>

\* the loops of an axial plane are over (or have no iteration to run)
AxialLoopDone == j >= XZ.resolution_z \/ arg.resolution_focus = 0

\* the loop counters after one iteration (j outer, i inner) and the log of its
\* assignment
AxialAdvance ==
    /\ IF i + 1 < arg.resolution_focus
       THEN /\ i' = i + 1
            /\ j' = j
       ELSE /\ i' = 0
            /\ j' = j + 1
    /\ iterations' = iterations + 1
    /\ writes' = Logged(writes, CellAxial(i, j), i, j)

\* if plot_plane=='X': one iteration of the XZ loops (j outer, i inner)
IterXZ ==
    /\ frame = "focus_XZ_XY"
    /\ pc = "select"
    /\ arg.plot_plane = "X"
    /\ ~AxialLoopDone
    /\ XZ' = XZIterX(XZ, arg, i, j)
    /\ AxialAdvance
    /\ UNCHANGED <<fn, frame, pc, arg, ex_lens, ey_lens, weight, coupling, xy, XY, lens, cart, ret>>

\* else: if plot_plane=='Y': one iteration of the YZ loops
IterYZ ==
    /\ frame = "focus_XZ_XY"
    /\ pc = "select"
    /\ arg.plot_plane = "Y"
    /\ ~AxialLoopDone
    /\ XZ' = XZIterY(XZ, arg, i, j)
    /\ AxialAdvance
    /\ UNCHANGED <<fn, frame, pc, arg, ex_lens, ey_lens, weight, coupling, xy, XY, lens, cart, ret>>

\* Ex_XZ*=... ; return Ex_XZ,Ey_XZ,Ez_XZ,Ex_XY,Ey_XY,Ez_XY
AxialResult ==
    [Ex_XZ |-> ScaledArray(XZ.Ex, "-i"), Ey_XZ |-> ScaledArray(XZ.Ey, "+i"),
     Ez_XZ |-> ScaledArray(XZ.Ez, "+i"),
     Ex_XY |-> XY.ex, Ey_XY |-> XY.ey, Ez_XY |-> XY.ez]

\* the loops of the selected plane are over: scaling and return
ReturnXZ ==
    /\ frame = "focus_XZ_XY"
    /\ pc = "select"
    /\ arg.plot_plane \in {"X", "Y"}
    /\ AxialLoopDone
    /\ ret' = Returned(AxialResult)
    /\ pc' = "returned"
    /\ UNCHANGED <<fn, frame, arg, locals>>

\* else: print('Options for plot_plane are ...'), then scaling and return
PrintOptions ==
    /\ frame = "focus_XZ_XY"
    /\ pc = "select"
    /\ arg.plot_plane \notin {"X", "Y"}
    /\ ret' = Returned(AxialResult)
    /\ pc' = "returned"
    /\ UNCHANGED <<fn, frame, arg, locals>>

\* ------------------------------------------------------------------ plot_in_cartesian
\* np.arctan of a ratio of two odd magnitudes, in thousandths of a degree (the
\* Cartesian grid of 2*resolution_theta points has odd numerators only)
ArcTanTable ==
    (<<1, 1>> :> 45000) @@ (<<1, 3>> :> 18435) @@ (<<1, 5>> :> 11310) @@
    (<<1, 7>> :> 8130)  @@ (<<3, 1>> :> 71565) @@ (<<3, 3>> :> 45000) @@
    (<<3, 5>> :> 30964) @@ (<<3, 7>> :> 23199) @@ (<<5, 1>> :> 78690) @@
    (<<5, 3>> :> 59036) @@ (<<5, 5>> :> 45000) @@ (<<5, 7>> :> 35538) @@
    (<<7, 1>> :> 81870) @@ (<<7, 3>> :> 66801) @@ (<<7, 5>> :> 54462) @@
    (<<7, 7>> :> 45000)

\* np.arctan2(y,x) in thousandths of a degree, in (-180000, 180000]
ArcTan2(y, x) ==
    LET t == ArcTanTable[<<Abs(y), Abs(x)>>]
    IN  IF x > 0 THEN (IF y > 0 THEN t ELSE -t)
        ELSE (IF y > 0 THEN 180000 - t ELSE t - 180000)

\* phip=np.arctan2(y,x) ; if phip<0: phip+=2*np.pi
NormalizedAngle(y, x) ==
    IF ArcTan2(y, x) < 0 THEN ArcTan2(y, x) + 360000 ELSE ArcTan2(y, x)

\* x_values=np.linspace(-xmax,xmax,2*resolution_theta), numerators in units of
\* xmax/(2*resolution_theta-1)
CartX(R) == LinspaceNum(-1, 1, 2 * R)

\* y_values=np.linspace(xmax,-xmax,2*resolution_theta)
CartY(R) == LinspaceNum(1, -1, 2 * R)

\* a faulty guard: every Cartesian sample is taken as inside the radius
InsideRadiusAlways(x, y, R) == TRUE

\* if rhop<xmax, with rhop=(x**2+y**2)**0.5 and xmax = LinspaceDen(2R) units
InsideRadius(x, y, R) == x * x + y * y < LinspaceDen(2 * R) * LinspaceDen(2 * R)

\* np.abs(ra - rhop) < np.abs(rb - rhop) for rhop = sqrt(s), ra, rb >= 0
RhoCloser(ra, rb, s) ==
    IF ra = rb THEN FALSE
    ELSE IF ra < rb THEN (ra + rb) * (ra + rb) > 4 * s
    ELSE (ra + rb) * (ra + rb) < 4 * s

\* np.abs(pa - phip) < np.abs(pb - phip)
PhiCloser(pa, pb, phip) == Abs(pa - phip) < Abs(pb - phip)

RECURSIVE ArgMinRho(_, _, _, _)
\* (np.abs(rhop_values - rhop)).argmin(): scan from entry k with best so far; argmin
\* keeps the first minimum, so a later entry replaces the best only when strictly
\* closer
ArgMinRho(values, s, k, best) ==
    IF k \notin DOMAIN values THEN best
    ELSE ArgMinRho(values, s, k + 1,
                   IF RhoCloser(values[k], values[best], s) THEN k ELSE best)

RECURSIVE ArgMinPhi(_, _, _, _)
\* (np.abs(phip_values - phip)).argmin()
ArgMinPhi(values, phip, k, best) ==
    IF k \notin DOMAIN values THEN best
    ELSE ArgMinPhi(values, phip, k + 1,
                   IF PhiCloser(values[k], values[best], phip) THEN k ELSE best)

\* phip_values=np.linspace(0,2*np.pi,resolution_phi), numerators over
\* LinspaceDen(resolution_phi) in thousandths of a degree
PhipValues(P) == LinspaceNum(0, 360000, P)

\* a faulty cell: Ex_cartesian[i,j] in place of Ex_cartesian[j,i]
CartCellTransposed(ii, jj) == [row |-> ii, col |-> jj]

\* the cell of Ex_cartesian the iteration (i, j) assigns: Ex_cartesian[j,i]
CartCell(ii, jj) == [row |-> jj, col |-> ii]

\* the body of the loops for x = x_values[i], y = y_values[j]
PlotIter(c, Ex, Ey, rhop_values, R, P, ii, jj) ==
    LET x == CartX(R)[ii]
        y == CartY(R)[jj]
    IN  IF InsideRadius(x, y, R)
        THEN LET id_rho == ArgMinRho(rhop_values, x * x + y * y, 0, 0)
                 id_phi == ArgMinPhi(PhipValues(P),
                                     NormalizedAngle(y, x) * LinspaceDen(P), 0, 0)
                 cell   == CartCell(ii, jj)
             IN  [Ex |-> [c.Ex EXCEPT ![cell.row][cell.col] = Ex[id_phi][id_rho]],
                  Ey |-> [c.Ey EXCEPT ![cell.row][cell.col] = Ey[id_phi][id_rho]]]
        ELSE c

\* I_cartesian=np.abs(Ex_cartesian)**2+np.abs(Ey_cartesian)**2
Intensity(c, R) ==
    [p \in Idx(2 * R) |-> [t \in Idx(2 * R) |->
        c.Ex[p][t] * c.Ex[p][t] + c.Ey[p][t] * c.Ey[p][t]]]

\* Ex_cartesian=np.zeros(...) ; Ey_cartesian=np.zeros(...)
CartZeros(R) == [Ex |-> Zeros(2 * R, 2 * R), Ey |-> Zeros(2 * R, 2 * R)]

\* rhop_values=np.sin(theta_values)*focus for 0 < alpha <= pi/2: the arrays of R
\* non-decreasing radii that start at sin(0)*focus = 0, numerators in the units
\* of CartX(R)
RhopValues(R) ==
    {r \in [Idx(R) -> 0 .. MaxRho] :
        /\ r[0] = 0
        /\ \A k \in 1 .. (R - 1) : r[k - 1] <= r[k]}

\* a call plot_in_cartesian(Ex, Ey, xmax, alpha, focus, figure_name), up to the
\* allocation of the zero Cartesian arrays
CallPlot ==
    /\ pc = "idle"
    /\ \E R \in 1 .. MaxCartTheta, P \in 1 .. MaxCartPhi :
       \E zr \in {0, P}, rv \in RhopValues(R) :
          /\ arg' = [resolution_theta |-> R, resolution_phi |-> P, rhop_values |-> rv]
          /\ lens' = [Ex |-> LensField(P, R, zr, 1), Ey |-> LensField(P, R, zr, -2)]
          /\ cart' = CartZeros(R)
    /\ fn' = "plot"
    /\ frame' = "plot"
    /\ pc' = "loop"
    /\ i' = 0
    /\ j' = 0
    /\ UNCHANGED <<ex_lens, ey_lens, weight, coupling, xy, XY, XZ, iterations, writes, ret>>

\* one iteration of the resampling loops: i (x) outer, j (y) inner
PlotStep ==
    /\ frame = "plot"
    /\ pc = "loop"
    /\ i < 2 * arg.resolution_theta
    /\ cart' = PlotIter(cart, lens.Ex, lens.Ey, arg.rhop_values,
                        arg.resolution_theta, arg.resolution_phi, i, j)
    /\ IF j + 1 < 2 * arg.resolution_theta
       THEN /\ j' = j + 1
            /\ i' = i
       ELSE /\ j' = 0
            /\ i' = i + 1
    /\ UNCHANGED <<fn, frame, pc, arg, ex_lens, ey_lens, weight, coupling, xy, XY, XZ, lens,
                   iterations, writes, ret>>

\* return I_cartesian,Ex_cartesian,Ey_cartesian
PlotResult ==
    [I_cartesian |-> Intensity(cart, arg.resolution_theta),
     Ex_cartesian |-> cart.Ex, Ey_cartesian |-> cart.Ey]

\* the loops are over: the intensity and the return to the caller
PlotReturn ==
    /\ frame = "plot"
    /\ pc = "loop"
    /\ i >= 2 * arg.resolution_theta
    /\ IF fn = "plot"
       THEN /\ ret' = Returned(PlotResult)
            /\ pc' = "returned"
            /\ frame' = frame
       ELSE /\ ret' = Returned([Ex |-> lens.Ex, Ey |-> lens.Ey] @@ PlotResult)
            /\ pc' = "returned"
            /\ frame' = fn
    /\ UNCHANGED <<fn, arg, locals>>

\* ------------------------------------------------------------------ custom_mask_objective_field
\* np.sum(prefactor*phase) at the output point (phip_values[j], rhop_values[i]): a
\* non-zero amplitude, distinct for every output point
LensSum(jj, ii, R) == 1 + jj * R + ii

\* the error of the first weight vector that fails, "" when both are built
ObjectiveWeightError(a) ==
    IF WeightError(a.N_rho, a.numpy_scalars) # ""
    THEN WeightError(a.N_rho, a.numpy_scalars)
    ELSE WeightError(a.N_phi, a.numpy_scalars)

\* weight_rho over [0, h], weight_phi over [0, 2*pi] (the latter in units of pi)
ObjectiveWeights(a) ==
    [rho |-> TrapezoidWeights(a.N_rho, a.h), phi |-> TrapezoidWeights(a.N_phi, 2)]

\* rhop_values of the lens-plane synthesizer end at focus*sin(alpha) = h = xmax
RhopValuesObjective(R) ==
    {r \in RhopValues(R) : R > 1 => r[R - 1] = LinspaceDen(2 * R)}

\* a call custom_mask_objective_field(psi, delta, resolution_theta, resolution_phi,
\* N_rho, N_phi, alpha, mask_function, h, ...)
CallObjective ==
    /\ pc = "idle"
    /\ \E nr \in 0 .. MaxResTheta, nf \in 0 .. MaxResPhi, R \in 1 .. MaxResTheta,
          P \in 1 .. MaxResPhi, h \in 1 .. MaxLength :
       \E np \in ScalarKinds({nr, nf}), rv \in RhopValuesObjective(R) :
          arg' = [N_rho |-> nr, N_phi |-> nf, resolution_theta |-> R,
                  resolution_phi |-> P, h |-> h, numpy_scalars |-> np,
                  rhop_values |-> rv]
    /\ fn' = "objective"
    /\ frame' = "objective"
    /\ pc' = "weights"
    /\ UNCHANGED <<locals, ret>>

\* the weights, then Ex=np.zeros((resolution_phi,resolution_theta),dtype=complex)
WeightsObjective ==
    /\ frame = "objective"
    /\ pc = "weights"
    /\ IF ObjectiveWeightError(arg) # ""
       THEN /\ pc' = "raised"
            /\ ret' = Raised(ObjectiveWeightError(arg))
            /\ UNCHANGED <<weight, lens>>
       ELSE /\ weight' = ObjectiveWeights(arg)
            /\ lens' = [Ex |-> Zeros(arg.resolution_phi, arg.resolution_theta)]
            /\ pc' = "loop"
            /\ ret' = ret
    /\ i' = 0
    /\ j' = 0
    /\ UNCHANGED <<fn, frame, arg, ex_lens, ey_lens, coupling, xy, XY, XZ, cart,
                   iterations, writes>>

\* one iteration of the numerical 2D integration: j (phip) outer, i (rhop) inner
ObjectiveIter ==
    /\ frame = "objective"
    /\ pc = "loop"
    /\ j < arg.resolution_phi
    /\ lens' = [lens EXCEPT !.Ex[j][i] = LensSum(j, i, arg.resolution_theta)]
    /\ IF i + 1 < arg.resolution_theta
       THEN /\ i' = i + 1
            /\ j' = j
       ELSE /\ i' = 0
            /\ j' = j + 1
    /\ iterations' = iterations + 1
    /\ UNCHANGED <<fn, frame, pc, arg, ex_lens, ey_lens, weight, coupling, xy, XY, XZ,
                   cart, writes, ret>>

\* Ex*=-1j/Lambda/L ; Ey=Ex*np.exp(...) ; Ex*=cos ; Ey*=sin: non-zero factors
Polarised(Ex) ==
    [Ex |-> Ex,
     Ey |-> [p \in DOMAIN Ex |-> [t \in DOMAIN Ex[p] |-> -2 * Ex[p][t]]]]

\* the integration is over: the scaling, then the call of plot_in_cartesian
ObjectiveCallsPlot ==
    /\ frame = "objective"
    /\ pc = "loop"
    /\ j >= arg.resolution_phi
    /\ lens' = Polarised(lens.Ex)
    /\ cart' = CartZeros(arg.resolution_theta)
    /\ frame' = "plot"
    /\ i' = 0
    /\ j' = 0
    /\ UNCHANGED <<fn, pc, arg, ex_lens, ey_lens, weight, coupling, xy, XY, XZ, iterations, writes, ret>>

\* ------------------------------------------------------------------ the integrand
\* The integrand prefactor*phase of the lens-plane synthesizers as a term: the
\* real factors, the arguments mask_function is called with, and the terms of
\* the imaginary exponent as <<sign, coefficient, quantity>> (a product of
\* exponentials adds the exponents, a*(b+c) is a*b+a*c).
RealFactors == {"rho", "exp(-(rho/radius)**2)", "mask_function", "weight"}

\* custom_mask_objective_field: prefactor
PrefactorFull ==
    [amplitude |-> RealFactors,
     mask_args |-> <<"rho", "phi", "radius", "focus", "k">>,
     exponent  |-> {<<1, "k", "L">>, <<1, "kl", "rho**2">>}]

\* custom_mask_objective_field: phase
PhaseFull ==
    [exponent |-> {<<1, "k", "rhop**2/2/L">>,
                   <<-1, "kl", "2*rho*rhop*cos(phi-phip)">>}]

\* test_custom_mask_objective_field: prefactor
PrefactorQuick ==
    [amplitude |-> RealFactors,
     mask_args |-> <<"rho", "phi">>,
     exponent  |-> {}]

\* test_custom_mask_objective_field: phase
PhaseQuick ==
    [exponent |-> {<<1, "k", "L">>, <<1, "k", "rhop**2/2/L">>,
                   <<1, "kl", "rho**2">>,
                   <<-1, "kl", "2*rho*rhop*cos(phi-phip)">>}]

\* prefactor*phase
Integrand(prefactor, phase) ==
    [amplitude |-> prefactor.amplitude, mask_args |-> prefactor.mask_args,
     exponent  |-> prefactor.exponent \cup phase.exponent]

\* 2*np.pi in thousandths of a degree
TwoPi == 360000

\* rho_values=np.linspace(0,h,N_rho) ; phi_values=np.linspace(0,2*np.pi,N_phi)
PupilGrid(a) ==
    [rho |-> LinspaceNum(0, a.h, a.N_rho), phi |-> LinspaceNum(0, TwoPi, a.N_phi)]

\* custom_mask_objective_field: np.sum(prefactor*phase) at the output point
\* (phip, rhop_values[ii]) as a term: what is summed, over which grid, with
\* which weights
FullSum(a, phip, ii) ==
    [integrand |-> Integrand(PrefactorFull, PhaseFull), grid |-> PupilGrid(a),
     weight |-> ObjectiveWeights(a), phip |-> phip, rhop |-> ii,
     factor |-> "1"]

\* ------------------------------------------------------------------ test_custom_mask_objective_field
\* np.pi/20 in thousandths of a degree
QuickStop == 9000

\* resolution_phi=int(resolution_phi/20)
QuickResolutionPhi(resolution_phi) == resolution_phi \div 20

\* phip_values=np.linspace(0,np.pi/20,resolution_phi), numerators over
\* LinspaceDen(resolution_phi)
QuickPhipValues(P) == LinspaceNum(0, QuickStop, P)

\* rho_values=np.linspace(0,h,N_rho) ; phi_values=np.linspace(0,2*np.pi,N_phi)
QuickPupilGrid(a) ==
    [rho |-> LinspaceNum(0, a.h, a.N_rho), phi |-> LinspaceNum(0, TwoPi, a.N_phi)]

\* weight_rho over [0, h], weight_phi over [0, 2*pi] (the latter in units of pi)
QuickWeights(a) ==
    [rho |-> TrapezoidWeights(a.N_rho, a.h), phi |-> TrapezoidWeights(a.N_phi, 2)]

\* Ex[j,i]=np.sum(prefactor*phase) at the output point (phip, rhop_values[ii])
QuickSum(grid, w, phip, ii) ==
    [integrand |-> Integrand(PrefactorQuick, PhaseQuick), grid |-> grid,
     weight |-> w, phip |-> phip, rhop |-> ii, factor |-> "1"]

\* Ex*=-1j/Lambda/L ; Ey=Ex*np.exp(...) ; Ex*=cos*I0**0.5 ; Ey*=sin*I0**0.5
QuickPolarised(Ex) ==
    [Ex |-> [p \in DOMAIN Ex |-> [t \in DOMAIN Ex[p] |->
                [Ex[p][t] EXCEPT !.factor = "-i*cos"]]],
     Ey |-> [p \in DOMAIN Ex |-> [t \in DOMAIN Ex[p] |->
                [Ex[p][t] EXCEPT !.factor = "-i*exp*sin"]]]]

\* the parameters of plot_in_cartesian(Ex,Ey,xmax,alpha,focus,figure_name)
PlotParameters == <<"Ex", "Ey", "xmax", "alpha", "focus", "figure_name">>

\* the arguments of the call plot_in_cartesian(Ex,Ey,h,alpha,focus)
QuickPlotArguments == <<"Ex", "Ey", "h", "alpha", "focus">>

\* a call test_custom_mask_objective_field(psi, delta, resolution_theta,
\* resolution_phi, N_rho, N_phi, alpha, mask_function, h, ...)
CallQuick ==
    /\ pc = "idle"
    /\ \E nr \in 0 .. MaxResTheta, nf \in 0 .. MaxResPhi, R \in 1 .. MaxResTheta,
          P \in 0 .. MaxQuickPhi, h \in 1 .. MaxLength :
       \E np \in ScalarKinds({nr, nf}) :
          arg' = [N_rho |-> nr, N_phi |-> nf, resolution_theta |-> R,
                  resolution_phi |-> P, h |-> h, numpy_scalars |-> np]
    /\ fn' = "quick"
    /\ frame' = "quick"
    /\ pc' = "weights"
    /\ UNCHANGED <<locals, ret>>

\* the pupil grid and the weights, then the reduced resolution_phi, phip_values
\* and Ex=np.zeros((resolution_phi,resolution_theta),dtype=complex)
WeightsQuick ==
    /\ frame = "quick"
    /\ pc = "weights"
    /\ IF ObjectiveWeightError(arg) # ""
       THEN /\ pc' = "raised"
            /\ ret' = Raised(ObjectiveWeightError(arg))
            /\ UNCHANGED <<weight, lens>>
       ELSE /\ weight' = QuickWeights(arg)
            /\ lens' = [grid |-> QuickPupilGrid(arg),
                        resolution_phi |-> QuickResolutionPhi(arg.resolution_phi),
                        phip_values |->
                            QuickPhipValues(QuickResolutionPhi(arg.resolution_phi)),
                        Ex |-> ZerosC(QuickResolutionPhi(arg.resolution_phi),
                                      arg.resolution_theta)]
            /\ pc' = "loop"
            /\ ret' = ret
    /\ i' = 0
    /\ j' = 0
    /\ UNCHANGED <<fn, frame, arg, ex_lens, ey_lens, coupling, xy, XY, XZ, cart,
                   iterations, writes>>

\* one iteration of the numerical 2D integration: j (phip) outer, i (rhop) inner
QuickIter ==
    /\ frame = "quick"
    /\ pc = "loop"
    /\ j < lens.resolution_phi
    /\ lens' = [lens EXCEPT !.Ex[j][i] =
                    QuickSum(lens.grid, weight, lens.phip_values[j], i)]
    /\ IF i + 1 < arg.resolution_theta
       THEN /\ i' = i + 1
            /\ j' = j
       ELSE /\ i' = 0
            /\ j' = j + 1
    /\ iterations' = iterations + 1
    /\ UNCHANGED <<fn, frame, pc, arg, ex_lens, ey_lens, weight, coupling, xy, XY, XZ,
                   cart, writes, ret>>

\* the integration is over: the scaling, then the call of plot_in_cartesian with
\* five arguments for six parameters without defaults, which raises TypeError
\* before the callee's body runs
QuickCallsPlot ==
    /\ frame = "quick"
    /\ pc = "loop"
    /\ j >= lens.resolution_phi
    /\ lens' = [lens EXCEPT !.Ex = QuickPolarised(lens.Ex).Ex] @@
                [Ey |-> QuickPolarised(lens.Ex).Ey]
    /\ IF Len(QuickPlotArguments) = Len(PlotParameters)
       THEN /\ cart' = CartZeros(arg.resolution_theta)
            /\ frame' = "plot"
            /\ UNCHANGED <<pc, ret>>
       ELSE /\ pc' = "raised"
            /\ ret' = Raised("TypeError")
            /\ UNCHANGED <<cart, frame>>
    /\ i' = 0
    /\ j' = 0
    /\ UNCHANGED <<fn, arg, ex_lens, ey_lens, weight, coupling, xy, XY, XZ, iterations,
                   writes>>

\* the call is over; the next call starts from fresh locals
Reset ==
    /\ pc \in {"returned", "raised"}
    /\ fn' = "none"
    /\ frame' = "none"
    /\ pc' = "idle"
    /\ arg' = None
    /\ ex_lens' = None
    /\ ey_lens' = None
    /\ weight' = None
    /\ coupling' = None
    /\ i' = 0
    /\ j' = 0
    /\ xy' = None
    /\ XY' = None
    /\ XZ' = None
    /\ lens' = None
    /\ cart' = None
    /\ iterations' = 0
    /\ writes' = None
    /\ ret' = NoOutcome

Next ==
    \/ CallFocus
    \/ CallFocusXZXY
    \/ Rotate
    \/ Weights
    \/ FocusIter
    \/ FocusReturn
    \/ OddZ
    \/ WeightsXZ
    \/ IterXZ
    \/ IterYZ
    \/ ReturnXZ
    \/ PrintOptions
    \/ CallPlot
    \/ PlotStep
    \/ PlotReturn
    \/ CallObjective
    \/ WeightsObjective
    \/ ObjectiveIter
    \/ ObjectiveCallsPlot
    \/ CallQuick
    \/ WeightsQuick
    \/ QuickIter
    \/ QuickCallsPlot
    \/ Reset

Spec == Init /\ [][Next]_vars

\* ------------------------------------------------------------------ properties
Synthesizers == {"focus", "focus_XZ_XY", "objective"}

Terminal == pc \in {"returned", "raised"}

\* the integration grids of the running synthesizer as <<count, length>> pairs,
\* in the order <<rho, phi>>; the phi length 2*pi is 2 in units of pi
IntegrationGrids ==
    IF fn = "objective"
    THEN [rho |-> [N |-> arg.N_rho, L |-> arg.h], phi |-> [N |-> arg.N_phi, L |-> 2]]
    ELSE [rho |-> [N |-> arg.resolution_theta, L |-> arg.alpha],
          phi |-> [N |-> arg.resolution_phi, L |-> 2]]

\* the weight vectors of the running synthesizer have been built
WeightsBuilt == fn \in Synthesizers /\ DOMAIN weight # {}

\* the rotators have run on a matrix with at least one row
Rotated ==
    /\ fn \in {"focus", "focus_XZ_XY"}
    /\ arg.resolution_phi >= 1
    /\ DOMAIN ex_lens # {}

\* C1: for every sample count N >= 2 and interval length L > 0 the trapezoidal
\* weight vector a synthesizer builds sums to exactly L.
C1_WeightsSumToLength ==
    WeightsBuilt =>
        \A g \in {"rho", "phi"} :
            IntegrationGrids[g].N >= 2 =>
                SumTo(weight[g], IntegrationGrids[g].N)
                    = IntegrationGrids[g].L * WeightDen(IntegrationGrids[g].N)

\* C2: row i of the 180-degree (270-degree) rotator's output equals row
\* ((i - offset) mod a) of its input, offset = floor(a/2) (floor(3a/4)).
C2_RowFromIMinusOffset ==
    Rotated =>
        LET a == arg.resolution_phi
        IN  \A r \in Idx(a) :
                /\ ex_lens[r] = arg.ex_lens[(r - Offset180(a) + a) % a]
                /\ ey_lens[r] = arg.ey_lens[(r - Offset270(a) + a) % a]

\* C3: a call of custom_mask_focus_field_XZ_XY with an axis flag other than 'X'
\* or 'Y' ends in an error outcome and never returns a result (every raised
\* error is taken as the configuration error here).
C3_InvalidSelectorRaises ==
    (fn = "focus_XZ_XY" /\ arg.plot_plane \notin {"X", "Y"} /\ Terminal) =>
        (pc = "raised" /\ ret.kind = "error")

\* the configuration passes the validation the claims describe
ValidConfiguration ==
    /\ IntegrationGrids.rho.N >= 2
    /\ IntegrationGrids.phi.N >= 2
    /\ (fn = "focus_XZ_XY" => arg.plot_plane \in {"X", "Y"})

\* C4: validation is complete before the first iteration of any quadrature loop,
\* and a call that fails validation returns no computed field array.
C4_ValidationBeforeLoops ==
    (fn \in Synthesizers /\ ~ValidConfiguration) =>
        (iterations = 0 /\ ret.kind # "return")

\* C5: a synthesizer call whose integration grid count is below 2 is rejected
\* with an error outcome and never completes normally (every raised error is
\* taken as the configuration error here).
C5_SmallGridRejected ==
    (/\ fn \in Synthesizers
     /\ (IntegrationGrids.rho.N < 2 \/ IntegrationGrids.phi.N < 2)
     /\ Terminal) =>
        (pc = "raised" /\ ret.kind = "error")

\* plot_in_cartesian has returned its arrays (to its caller or as the outcome)
PlotDone == fn \in {"plot", "objective"} /\ pc = "returned" /\ ret.kind = "return"

\* k is the first index that minimizes |values - sqrt(s)|
FirstNearestRho(values, s, k) ==
    \A m \in DOMAIN values :
        /\ ~RhoCloser(values[m], values[k], s)
        /\ (m < k => RhoCloser(values[k], values[m], s))

\* k is the first index that minimizes |values - phip|
FirstNearestPhi(values, phip, k) ==
    \A m \in DOMAIN values :
        /\ Abs(values[k] - phip) <= Abs(values[m] - phip)
        /\ (m < k => Abs(values[k] - phip) < Abs(values[m] - phip))

\* C6: for every Cartesian sample (x_i ascending, y_j descending) with radius
\* below xmax, cell [row j, column i] of both returned component arrays holds the
\* polar field at [id_phi, id_rho], each the first index nearest on its own axis,
\* the angle normalized into [0, 360) degrees.
C6_NearestOnEachAxis ==
    PlotDone =>
        LET R == arg.resolution_theta
            P == arg.resolution_phi
            D == 2 * R - 1
            X == [k \in Idx(2 * R) |-> 2 * k - D]
            Y == [k \in Idx(2 * R) |-> D - 2 * k]
        IN  \A ii \in Idx(2 * R), jj \in Idx(2 * R) :
                X[ii] * X[ii] + Y[jj] * Y[jj] < D * D =>
                    \E id_rho \in Idx(R), id_phi \in Idx(P) :
                        /\ FirstNearestRho(arg.rhop_values,
                                           X[ii] * X[ii] + Y[jj] * Y[jj], id_rho)
                        /\ FirstNearestPhi(PhipValues(P),
                                           NormalizedAngle(Y[jj], X[ii]) * LinspaceDen(P),
                                           id_phi)
                        /\ NormalizedAngle(Y[jj], X[ii]) \in 0 .. 359999
                        /\ ret.val.Ex_cartesian[jj][ii] = lens.Ex[id_phi][id_rho]
                        /\ ret.val.Ey_cartesian[jj][ii] = lens.Ey[id_phi][id_rho]

\* a resampling returned in which a cell took a non-zero polar sample that is
\* first on neither axis
C6_Witness ==
    /\ PlotDone
    /\ arg.resolution_theta = 3
    /\ arg.resolution_phi = 5
    /\ \E ii \in Idx(6), jj \in Idx(6), p \in 1 .. 4, r \in 1 .. 2 :
          /\ lens.Ex[p][r] # 0
          /\ ret.val.Ex_cartesian[jj][ii] = lens.Ex[p][r]

\* C7: every Cartesian cell whose sample point has radius >= xmax holds exactly
\* zero in both returned component arrays and in the intensity.
C7_OutsideRadiusZero ==
    PlotDone =>
        LET R == arg.resolution_theta
            D == 2 * R - 1
        IN  \A ii \in Idx(2 * R), jj \in Idx(2 * R) :
                (2 * ii - D) * (2 * ii - D) + (D - 2 * jj) * (D - 2 * jj) >= D * D =>
                    /\ ret.val.Ex_cartesian[jj][ii] = 0
                    /\ ret.val.Ey_cartesian[jj][ii] = 0
                    /\ ret.val.I_cartesian[jj][ii] = 0

\* a resampling returned with a non-zero cell inside the radius next to the zero
\* cells outside it, from a polar field without a zero sample
C7_Witness ==
    /\ PlotDone
    /\ arg.resolution_theta >= 2
    /\ \A p \in DOMAIN lens.Ex : \A r \in DOMAIN lens.Ex[p] : lens.Ex[p][r] # 0
    /\ ret.val.I_cartesian[0][0] = 0
    /\ \E ii \in Idx(2 * arg.resolution_theta), jj \in Idx(2 * arg.resolution_theta) :
          ret.val.I_cartesian[jj][ii] # 0

\* C8: custom_mask_focus_field returns the same (ex, ey, ez) with countdown=True
\* and countdown=False: what the call returned is what the loops of the other
\* branch compute from the same inputs.
C8_CountdownNoEffect ==
    (fn = "focus" /\ pc = "returned") =>
        ret.val = XYScaled(XYLoopFrom(~arg.countdown, XYZeros(arg), arg, 0, 0))

\* a call with countdown=False returned a 2x2 field off the axis
C8_Witness ==
    /\ fn = "focus"
    /\ pc = "returned"
    /\ ~arg.countdown
    /\ arg.resolution_focus = 2
    /\ arg.x0 = 1
    /\ ret.val.ex[1][0].s = "x"

\* C9: the 180-degree rotator applied twice returns the original matrix when the
\* row count a is even and the original shifted cyclically by one row when a is
\* odd; no row content changes.
C9_TwiceRotate180 ==
    Rotated =>
        LET a     == arg.resolution_phi
            twice == rotate_180(ex_lens, a, arg.resolution_theta)
        IN  /\ twice.ok
            /\ (a % 2 = 0 => twice.aux = arg.ex_lens)
            /\ (a % 2 = 1 =>
                   \E d \in {1, a - 1} :
                       \A r \in Idx(a) : twice.aux[r] = arg.ex_lens[(r + d) % a])

\* the rotator ran on three distinct rows
C9_Witness ==
    /\ Rotated
    /\ arg.resolution_phi = 3
    /\ arg.resolution_theta = 2
    /\ arg.ex_lens[0] # arg.ex_lens[1]
    /\ ex_lens # arg.ex_lens

\* the rows of out are the rows of in moved cyclically by some shift
CyclicShift(in, out, a) ==
    /\ DOMAIN out = DOMAIN in
    /\ \A r \in Idx(a) : DOMAIN out[r] = DOMAIN in[r]
    /\ \E shift \in Idx(a) : \A r \in Idx(a) : out[r] = in[(r + shift) % a]

\* C10: both rotators are exact cyclic row permutations: same shape, every input
\* row in the output once and unchanged, an output row zero only where its input
\* row is zero, every written index within -a..a-1.
C10_ExactCyclicPermutation ==
    Rotated =>
        LET a == arg.resolution_phi
        IN  /\ CyclicShift(arg.ex_lens, ex_lens, a)
            /\ CyclicShift(arg.ey_lens, ey_lens, a)
            /\ \A r \in Idx(a) :
                   /\ IndexInRange(RotateIndex(r, Offset180(a)), a)
                   /\ IndexInRange(RotateIndex(r, Offset270(a)), a)
                   /\ ex_lens[RowOf(RotateIndex(r, Offset180(a)), a)] = arg.ex_lens[r]
                   /\ ey_lens[RowOf(RotateIndex(r, Offset270(a)), a)] = arg.ey_lens[r]
            /\ \A r \in Idx(a), q \in Idx(a) :
                   r # q =>
                       /\ RowOf(RotateIndex(r, Offset180(a)), a)
                              # RowOf(RotateIndex(q, Offset180(a)), a)
                       /\ RowOf(RotateIndex(r, Offset270(a)), a)
                              # RowOf(RotateIndex(q, Offset270(a)), a)

\* the rotators ran on four rows, one of them zero, and moved the zero row
C10_Witness ==
    /\ Rotated
    /\ arg.resolution_phi = 4
    /\ \A t \in Idx(arg.resolution_theta) : arg.ex_lens[0][t] = 0
    /\ arg.resolution_theta >= 1
    /\ \A t \in Idx(arg.resolution_theta) : ex_lens[2][t] = 0 /\ ey_lens[1][t] = 0

\* the axial sample grid of custom_mask_focus_field_XZ_XY has been built
AxialGridBuilt == fn = "focus_XZ_XY" /\ "z_values" \in DOMAIN XZ

\* C11: for every requested resolution_z >= 1 and every z_FOV > 0 the axial
\* sample grid actually used has an odd number of points and holds z = 0 as
\* exactly one of its sample points.
C11_OddGridSamplesZero ==
    AxialGridBuilt =>
        /\ DOMAIN XZ.z_values = Idx(XZ.resolution_z)
        /\ XZ.resolution_z % 2 = 1
        /\ Cardinality({k \in DOMAIN XZ.z_values : XZ.z_values[k] = 0}) = 1

\* the XY output loops of custom_mask_focus_field are running or just over
InXYLoop == frame = "focus" /\ pc = "loop"

\* the axial output loops of custom_mask_focus_field_XZ_XY are running or just over
InAxialLoop ==
    frame = "focus_XZ_XY" /\ pc = "select" /\ arg.plot_plane \in {"X", "Y"}

\* the iterations <<i, j>> of the running output loops
LoopIterations ==
    IF InXYLoop
    THEN Idx(arg.resolution_focus) \X Idx(arg.resolution_focus)
    ELSE Idx(arg.resolution_focus) \X Idx(XZ.resolution_z)

\* the running output loops have executed all their iterations
LoopOver == IF InXYLoop THEN i >= arg.resolution_focus ELSE AxialLoopDone

\* the three output arrays being filled, and what one iteration does to them
OutputArrays ==
    IF InXYLoop THEN <<xy.ex, xy.ey, xy.ez>> ELSE <<XZ.Ex, XZ.Ey, XZ.Ez>>

IterationOn(f, it) ==
    IF InXYLoop THEN XYIter(arg.countdown, f, arg, it[1], it[2])
    ELSE IF arg.plot_plane = "X" THEN XZIterX(f, arg, it[1], it[2])
    ELSE XZIterY(f, arg, it[1], it[2])

\* every cell was assigned at most once so far, exactly once when the loops are
\* over, an unassigned cell is still zero in all three arrays, and as many cells
\* are assigned as iterations have run
WrittenOnce ==
    /\ \A a \in 1 .. 3 : DOMAIN OutputArrays[a] = DOMAIN writes
    /\ \A r \in DOMAIN writes :
           /\ \A a \in 1 .. 3 : DOMAIN OutputArrays[a][r] = DOMAIN writes[r]
           /\ \A c \in DOMAIN writes[r] :
                  /\ Len(writes[r][c]) <= 1
                  /\ LoopOver => Len(writes[r][c]) = 1
                  /\ \A a \in 1 .. 3 :
                         (OutputArrays[a][r][c] = ZeroC) <=> (writes[r][c] = << >>)
    /\ LoopOver =>
           \A it \in LoopIterations :
               Cardinality({rc \in (DOMAIN writes) \X Idx(arg.resolution_focus) :
                               writes[rc[1]][rc[2]] = <<it>>}) = 1

\* any two distinct iterations give the same arrays in either order
IterationsCommute ==
    LET f == IF InXYLoop THEN xy ELSE XZ
    IN  \A p \in LoopIterations, q \in LoopIterations :
            (p[1] < q[1] \/ (p[1] = q[1] /\ p[2] < q[2])) =>
                IterationOn(IterationOn(f, p), q) = IterationOn(IterationOn(f, q), p)

\* the coupling arrays hold what was precomputed from the rotated copies of the
\* caller's arrays
CouplingIntact ==
    /\ ex_lens = rotate_180(arg.ex_lens, arg.resolution_phi, arg.resolution_theta).aux
    /\ ey_lens = rotate_270(arg.ey_lens, arg.resolution_phi, arg.resolution_theta).aux
    /\ coupling = CouplingArrays(ex_lens, ey_lens, weight)

\* a step that runs one iteration of the output loops of a focal synthesizer
OutputIteration ==
    /\ InXYLoop \/ InAxialLoop
    /\ iterations' = iterations + 1

\* C12: during the output-point loops of both focal synthesizers every cell of
\* each output array is written exactly once by exactly one iteration, and no
\* iteration modifies the coupling arrays or the caller's ex_lens / ey_lens, so
\* the iterations give the same result in any order.
C12_CellsWrittenOnce ==
    /\ []((InXYLoop \/ InAxialLoop) =>
            (WrittenOnce /\ IterationsCommute /\ CouplingIntact))
    /\ [][OutputIteration =>
              /\ coupling' = coupling
              /\ arg'.ex_lens = arg.ex_lens /\ arg'.ey_lens = arg.ey_lens
              /\ ex_lens' = ex_lens /\ ey_lens' = ey_lens
              /\ weight' = weight]_vars

\* the axial loops of a 3 x 2 plane are over, after the XY loops of the same call
C12_Witness ==
    /\ InAxialLoop
    /\ LoopOver
    /\ arg.resolution_focus = 2
    /\ XZ.resolution_z = 3
    /\ arg.resolution_phi >= 2
    /\ writes[2][1] = << <<1, 2>> >>
    /\ XZ.Ez[2][1] # ZeroC
    /\ XY.ex[1][0] # ZeroC

\* the quick lens-plane variant has built its output azimuth grid
QuickGridBuilt == fn = "quick" /\ "phip_values" \in DOMAIN lens

\* two integrands are the same kernel: the same real factors and the same
\* imaginary exponent (the mask evaluator is whatever accepts the call)
SameKernel(a, b) == a.amplitude = b.amplitude /\ a.exponent = b.exponent

\* C13: the quick variant is the full variant restricted by a parameter: its
\* output azimuth grid has floor(resolution_phi/20) samples and covers 1/20 of
\* the full [0, 2*pi] range, and the sum at every output point it computes uses
\* the pupil grid, weights and kernel the full variant uses for that point.
C13_QuickIsRestrictedFull ==
    QuickGridBuilt =>
        LET P == Cardinality(DOMAIN lens.phip_values)
        IN  /\ P = arg.resolution_phi \div 20
            /\ P >= 1 => lens.phip_values[0] = 0
            /\ P >= 2 =>
                   20 * lens.phip_values[P - 1] = TwoPi * LinspaceDen(P)
            /\ \A p \in DOMAIN lens.Ex : \A t \in DOMAIN lens.Ex[p] :
                   lens.Ex[p][t] # ZeroC =>
                       LET full == FullSum(arg, lens.phip_values[p], t)
                       IN  /\ lens.Ex[p][t].grid = full.grid
                           /\ lens.Ex[p][t].weight = full.weight
                           /\ SameKernel(lens.Ex[p][t].integrand, full.integrand)
                           /\ lens.Ex[p][t].phip = full.phip
                           /\ lens.Ex[p][t].rhop = full.rhop

\* the configuration of a quick-variant call is valid: all grid counts >= 2 and
\* resolution_phi >= 40 (the physical parameters are positive in every call)
ValidQuickConfiguration ==
    /\ fn = "quick"
    /\ arg.N_rho >= 2
    /\ arg.N_phi >= 2
    /\ arg.resolution_theta >= 2
    /\ arg.resolution_phi >= 40

\* C14: with a valid configuration a call of test_custom_mask_objective_field
\* runs its quadrature loop and then returns its five result arrays; it does
\* not end in an error after the loop has completed.
C14_QuickReturnsFiveArrays ==
    (ValidQuickConfiguration /\ Terminal) =>
        /\ iterations = (arg.resolution_phi \div 20) * arg.resolution_theta
        /\ pc = "returned"
        /\ ret.kind = "return"
        /\ DOMAIN ret.val = {"Ex", "Ey", "I_cartesian", "Ex_cartesian", "Ey_cartesian"}

====
